---- MODULE Spec2Model ----
(***************************************************************************)
(* Model of src/app.py: DarkIndicatorDataCollector (fetch_data,            *)
(* collect_all_data, _calculate_basic_indicators) and the two routes that  *)
(* call it (/dark-indicators/<stock_code>, /raw-data/<stock_code>).        *)
(*                                                                         *)
(* The source's dictionary keys, display names and sentinels are Chinese   *)
(* strings; TLA+ strings are ASCII, so each is given an ASCII name here    *)
(* and the original is quoted in the comment beside its definition.        *)
(*                                                                         *)
(* A value shown to the caller is an Entry [t, v, s]: t names how the      *)
(* source renders it, v is the integer it renders, s the text it carries:  *)
(*   num   the float itself                       (v)                      *)
(*   pct1  f"{x:.1f}%"      v = x rounded, in tenths                       *)
(*   pct2  f"{x:.2f}%"      v = x rounded, in hundredths                   *)
(*   dec2  f"{x:.2f}"       v = x rounded, in hundredths                   *)
(*   yi1   f"{x/1e8:.1f}億"  v = x/1e8 rounded, in tenths                   *)
(*   yi2   f"{x/1e8:.2f}億"  v = x/1e8 rounded, in hundredths               *)
(*   int0  f"{x:,.0f}"      v = x rounded to an integer                    *)
(*   lots  f"{x:,}張"        v = x                                          *)
(*   date  '%Y-%m-%d'       v = y*10000 + m*100 + d                        *)
(*   ym    '%Y-%m'          v = y*100 + m                                  *)
(*   str   a fixed text     s                                              *)
(***************************************************************************)
EXTENDS Integers, Sequences, FiniteSets, TLC

VARIABLES upstream, collector, invocations, request, collected, previous,
          fetch_log, response

vars == <<upstream, collector, invocations, request, collected, previous,
          fetch_log, response>>

(***************************************************************************)
(* Entries and number formatting.                                          *)
(***************************************************************************)
Entry(t, v, s) == [t |-> t, v |-> v, s |-> s]
NumE(v) == Entry("num", v, "")
StrE(s) == Entry("str", 0, s)

\* the sentinels of lines 357, 359, 361, 524
PRIOR_YEAR_ZERO == StrE("prior_year_zero")         \* "去年同期為0"
NO_PRIOR_YEAR_DATA == StrE("no_prior_year_data")   \* "無去年同期資料"
NO_DATA == StrE("no_data")                         \* "無資料"
CANNOT_COMPUTE == StrE("cannot_compute")           \* "無法計算"

Abs(x) == IF x < 0 THEN -x ELSE x

\* n/d rounded to the nearest integer, d > 0, an exact tie going to the even
\* neighbour: what a format specification .Nf does to a value that a float
\* holds exactly.
RoundDiv(n, d) ==
    LET q == n \div d
        r == n - q * d
    IN  IF 2 * r < d THEN q
        ELSE IF 2 * r > d THEN q + 1
        ELSE IF q % 2 = 0 THEN q ELSE q + 1

\* (n/d) * scale rounded to an integer, d # 0
Scaled(n, d, scale) ==
    IF d > 0 THEN RoundDiv(n * scale, d) ELSE RoundDiv(-(n * scale), -d)

\* f"{(n/d)*100:.1f}%"
Pct1(n, d) == Entry("pct1", Scaled(n, d, 1000), "")
\* f"{(n/d*100):.2f}%"
Pct2(n, d) == Entry("pct2", Scaled(n, d, 10000), "")
\* f"{n/d:.2f}"
Dec2(n, d) == Entry("dec2", Scaled(n, d, 100), "")
\* f"{x/1e8:.2f}億" and f"{x/1e8:.1f}億"
Yi2(x) == Entry("yi2", Scaled(x, 100000000, 100), "")
Yi1(x) == Entry("yi1", Scaled(x, 100000000, 10), "")
\* f"{x:,.0f}"
Int0(x) == Entry("int0", x, "")

(***************************************************************************)
(* Dates: <<year, month, day>>, ordered as pandas orders Timestamps.       *)
(***************************************************************************)
IsLeap(y) == (y % 4 = 0 /\ y % 100 # 0) \/ y % 400 = 0

DaysIn(y, m) ==
    IF m = 2 THEN (IF IsLeap(y) THEN 29 ELSE 28)
    ELSE IF m \in {4, 6, 9, 11} THEN 30 ELSE 31

ValidDate(d) == d[2] \in 1..12 /\ d[3] \in 1..DaysIn(d[1], d[2])

DateLE(a, b) ==
    \/ a[1] < b[1]
    \/ a[1] = b[1] /\ a[2] < b[2]
    \/ a[1] = b[1] /\ a[2] = b[2] /\ a[3] <= b[3]

\* df['date'].max() of a non-empty frame
MaxDate(df) ==
    CHOOSE d \in {df[i].date : i \in DOMAIN df} :
        \A i \in DOMAIN df : DateLE(df[i].date, d)

DateE(d) == Entry("date", d[1] * 10000 + d[2] * 100 + d[3], "")
YmE(d) == Entry("ym", d[1] * 100 + d[2], "")

\* a variant of the definition below: the same date a year before, whether
\* it exists or not
LastYearNoFallback(latest) == <<latest[1] - 1, latest[2], latest[3]>>
\* lines 313-317 and 443-446: latest.replace(year=latest.year-1), and when
\* that raises (the date does not exist) June 30 of that year
LastYearSameDate(latest) ==
    IF ValidDate(<<latest[1] - 1, latest[2], latest[3]>>)
    THEN <<latest[1] - 1, latest[2], latest[3]>>
    ELSE <<latest[1] - 1, 6, 30>>

(***************************************************************************)
(* Values of a record: a number, or something float() cannot coerce.       *)
(***************************************************************************)
Num(n) == [ok |-> TRUE, n |-> n]
NotANumber == [ok |-> FALSE, n |-> 0]
\* a number written without fraction or exponent, which response.json() (line
\* 161) reads as an int.  The difference from Num shows only where a value is
\* passed on as it came (lines 533-534); elsewhere float() or a format
\* specification is applied to it.
Whole(n) == [ok |-> TRUE, n |-> n, json |-> "integer"]
IsWhole(value) == "json" \in DOMAIN value

\* df[df['date'] == d]
AtDate(df, d) == SelectSeq(df, LAMBDA r : r.date = d)
\* df[df['origin_name'] == name]
OfName(df, name) == SelectSeq(df, LAMBDA r : r.origin_name = name)

\* match['value'].iloc[0]: the first matching row
ILoc0(match) == match[1].value

(***************************************************************************)
(* _calculate_basic_indicators, section by section.  A section yields      *)
(* [fault, out]: fault when a statement of the section raises, out the     *)
(* keys it stores in the indicator map otherwise.                          *)
(*                                                                         *)
(* Keys of the indicator map:                                              *)
(*   basic_info_section          "基本資料"                                *)
(*   income_indicators           "損益表指標"                              *)
(*   operating_margin_pct        "營業利益率%"                             *)
(*   gross_margin_pct            "毛利率%"                                 *)
(*   monthly_revenue_indicators  "月營收指標"                              *)
(*   cashflow_indicators         "現金流指標"                              *)
(*   balance_indicators          "資產負債指標"                            *)
(*   trading_indicators          "交易指標"                                *)
(*   yoy_summary                 "YoY成長率總結"                           *)
(*   finmind_unavailable_items   "FinMind無資料項目"                       *)
(*   calc_error                  "計算錯誤"                                *)
(* Key suffixes inside a section: _yi "_億元", _yoy "_YoY成長率",          *)
(* _prior "_去年同期".                                                     *)
(***************************************************************************)
EmptyMap == [k \in {} |-> 0]
Raised == [fault |-> TRUE, out |-> EmptyMap]
Stored(out) == [fault |-> FALSE, out |-> out]

\* lines 325-334: origin_name -> display name, in the dictionary's order
\*   Revenue "營業收入" -> latest_q_revenue "最新季營收"
\*   OperatingIncome "營業利益（損失）" -> latest_q_operating_income "最新季營業利益"
\*   PreTaxIncome "稅前淨利（淨損）" -> latest_q_pretax_income "最新季稅前淨利"
\*   NetIncome "本期淨利（淨損）" -> latest_q_net_income "最新季淨利"
\*   NonOperating "營業外收入及支出" -> non_operating "營業外收支"
\*   EPS "基本每股盈餘（元）" -> latest_q_eps "最新季EPS"
\*   CostOfGoodsSold "營業成本" -> operating_cost "營業成本"
\*   GrossProfit "營業毛利（毛損）" -> gross_profit "營業毛利"
financial_mapping ==
    << <<"Revenue", "latest_q_revenue">>,
       <<"OperatingIncome", "latest_q_operating_income">>,
       <<"PreTaxIncome", "latest_q_pretax_income">>,
       <<"NetIncome", "latest_q_net_income">>,
       <<"NonOperating", "non_operating">>,
       <<"EPS", "latest_q_eps">>,
       <<"CostOfGoodsSold", "operating_cost">>,
       <<"GrossProfit", "gross_profit">> >>

\* lines 453-461
\*   TotalAssets "資產總額" -> total_assets "總資產"
\*   Liabilities "負債總額" -> total_liabilities "總負債"
\*   CurrentAssets "流動資產合計" -> current_assets "流動資產"
\*   CurrentLiabilities "流動負債合計" -> current_liabilities "流動負債"
\*   Inventories "存貨" -> inventory "存貨"
\*   AccountsReceivableNet "應收帳款淨額" -> receivables "應收帳款"
\*   OrdinaryShare "普通股股本" -> share_capital "股本"
bs_mapping ==
    << <<"TotalAssets", "total_assets">>,
       <<"Liabilities", "total_liabilities">>,
       <<"CurrentAssets", "current_assets">>,
       <<"CurrentLiabilities", "current_liabilities">>,
       <<"Inventories", "inventory">>,
       <<"AccountsReceivableNet", "receivables">>,
       <<"OrdinaryShare", "share_capital">> >>

\* lines 346 and 354: the income statement shows a value in units of 1e8 only
\* from 1e8 on; lines 474 and 482: the balance sheet always does
ShowYi(x, is_income) ==
    IF is_income /\ Abs(x) < 100000000 THEN Int0(x) ELSE Yi2(x)

\* a variant of the definition below: the difference over the prior value
\* itself, without abs
YoYGrowthSigned(current_value, last_year_value) ==
    Pct1(current_value - last_year_value, last_year_value)
\* lines 352-353 and 480-481
YoYGrowth(current_value, last_year_value) ==
    Pct1(current_value - last_year_value, Abs(last_year_value))

\* lines 349-359 and 477-490: the growth entries of a field that has a
\* current value
GrowthEntries(display_name, current_value, last_year_match, is_income) ==
    IF last_year_match = <<>>
    THEN (display_name \o "_yoy") :> NO_PRIOR_YEAR_DATA
    ELSE LET last_year_value == ILoc0(last_year_match).n
         IN  IF last_year_value # 0
             THEN ((display_name \o "_yoy") :>
                       YoYGrowth(current_value, last_year_value))
                  @@ ((display_name \o "_prior") :>
                       ShowYi(last_year_value, is_income))
             ELSE (display_name \o "_yoy") :> PRIOR_YEAR_ZERO

\* lines 339-361 and 466-493: one turn of the loop over the mapping
FieldEntries(latest_df, last_year_df, origin_name, display_name, is_income) ==
    LET current_match == OfName(latest_df, origin_name)
        last_year_match == OfName(last_year_df, origin_name)
    IN  IF current_match # <<>>
        THEN LET current_value == ILoc0(current_match).n
             IN  (display_name :> NumE(current_value))
                 @@ ((display_name \o "_yi") :> ShowYi(current_value, is_income))
                 @@ GrowthEntries(display_name, current_value,
                                  last_year_match, is_income)
        ELSE display_name :> NO_DATA

\* float() of lines 344, 350, 471, 478 raises on a value it cannot coerce;
\* the prior-year value is read only when the field has a current value
FieldRaises(latest_df, last_year_df, origin_name) ==
    LET current_match == OfName(latest_df, origin_name)
        last_year_match == OfName(last_year_df, origin_name)
    IN  /\ current_match # <<>>
        /\ \/ ~ILoc0(current_match).ok
           \/ last_year_match # <<>> /\ ~ILoc0(last_year_match).ok

RECURSIVE LoopEntries(_, _, _, _, _)
LoopEntries(latest_df, last_year_df, mapping, i, is_income) ==
    IF i > Len(mapping) THEN EmptyMap
    ELSE LoopEntries(latest_df, last_year_df, mapping, i + 1, is_income)
         @@ FieldEntries(latest_df, last_year_df,
                         mapping[i][1], mapping[i][2], is_income)

LoopRaises(latest_df, last_year_df, mapping) ==
    \E i \in DOMAIN mapping :
        FieldRaises(latest_df, last_year_df, mapping[i][1])

\* lines 365-378: the margins, stored beside the section
MarginRatios(latest_financial) ==
    LET revenue_val == OfName(latest_financial, "Revenue")
        operating_val == OfName(latest_financial, "OperatingIncome")
        gross_val == OfName(latest_financial, "GrossProfit")
    IN  IF revenue_val # <<>> /\ ILoc0(revenue_val).n # 0
        THEN LET revenue_amount == ILoc0(revenue_val).n
             IN  (IF operating_val # <<>>
                  THEN "operating_margin_pct" :>
                           Pct1(ILoc0(operating_val).n, revenue_amount)
                  ELSE EmptyMap)
                 @@ (IF gross_val # <<>>
                     THEN "gross_margin_pct" :>
                              Pct1(ILoc0(gross_val).n, revenue_amount)
                     ELSE EmptyMap)
        ELSE EmptyMap

\* lines 303-378
FinancialSection(financial_statement) ==
    LET latest_date == MaxDate(financial_statement)
        last_year_same_quarter == LastYearSameDate(latest_date)
        latest_financial == AtDate(financial_statement, latest_date)
        last_year_financial == AtDate(financial_statement, last_year_same_quarter)
    IN  IF LoopRaises(latest_financial, last_year_financial, financial_mapping)
        THEN Raised
        ELSE Stored(
            ("income_indicators" :>
                (("latest_report_date" :> DateE(latest_date))
                 @@ LoopEntries(latest_financial, last_year_financial,
                                financial_mapping, 1, TRUE)))
            @@ MarginRatios(latest_financial))

\* lines 293-300
BasicSection(basic) ==
    Stored("basic_info_section" :>
        [stock_id |-> StrE(basic.stock_id),
         stock_name |-> StrE(basic.stock_name),
         industry_category |-> StrE(basic.industry_category),
         type |-> StrE(basic.type)])

\* a DataFrame column holds numpy numbers when every value of it is a number,
\* and the Python objects themselves otherwise
NumericColumn(monthly_revenue) ==
    \A i \in DOMAIN monthly_revenue : monthly_revenue[i].revenue.ok

\* line 400 with last_year_revenue = 0, on numpy numbers: no exception, the
\* quotient is inf, -inf or nan and line 406 renders it
GrowthOverZero(current_revenue) ==
    IF current_revenue > 0 THEN StrE("inf%")
    ELSE IF current_revenue < 0 THEN StrE("-inf%")
    ELSE StrE("nan%")

\* lines 398-407; the keys are latest_month "最新月份", latest_month_revenue
\* "最新月營收", last_year_month_revenue "去年同月營收", revenue_yoy "營收年增率"
MonthlyEntries(current_date, current_revenue, last_year_revenue) ==
    [latest_month |-> YmE(current_date),
     latest_month_revenue |-> Yi1(current_revenue),
     last_year_month_revenue |-> Yi1(last_year_revenue),
     revenue_yoy |->
        IF last_year_revenue # 0
        THEN Pct1(current_revenue - last_year_revenue, last_year_revenue)
        ELSE GrowthOverZero(current_revenue)]

\* lines 381-407
MonthlySection(monthly_revenue) ==
    LET latest_revenue == monthly_revenue[Len(monthly_revenue)]
        current_date == latest_revenue.date
        last_year_data ==
            SelectSeq(monthly_revenue,
                      LAMBDA r : /\ r.date[1] = current_date[1] - 1
                                 /\ r.date[2] = current_date[2])
    IN  IF last_year_data = <<>> THEN Stored(EmptyMap)
        ELSE LET current_revenue == latest_revenue.revenue
                 last_year_revenue == last_year_data[1].revenue
             IN  IF ~current_revenue.ok \/ ~last_year_revenue.ok
                 THEN Raised   \* line 400: arithmetic on a non-number
                 ELSE IF last_year_revenue.n = 0
                         /\ ~NumericColumn(monthly_revenue)
                 THEN Raised   \* line 400: ZeroDivisionError on Python numbers
                 ELSE Stored("monthly_revenue_indicators" :>
                          MonthlyEntries(current_date, current_revenue.n,
                                         last_year_revenue.n))

\* lines 415-420
\*   CashFlowsFromOperatingActivities "營業活動之淨現金流入（流出）" -> A_operating_cashflow
\*   CashFlowsFromInvestingActivities "投資活動之淨現金流入（流出）" -> B_investing_cashflow
\*   CashFlowsFromFinancingActivities "籌資活動之淨現金流入（流出）" -> C_financing_cashflow
\*   CashBalancesEndOfPeriod "期末現金及約當現金餘額" -> E_ending_cash
cf_mapping ==
    << <<"CashFlowsFromOperatingActivities", "A_operating_cashflow">>,
       <<"CashFlowsFromInvestingActivities", "B_investing_cashflow">>,
       <<"CashFlowsFromFinancingActivities", "C_financing_cashflow">>,
       <<"CashBalancesEndOfPeriod", "E_ending_cash">> >>

\* lines 423-430: one turn of the loop
CashflowEntries(latest_cf, origin_name, display_name) ==
    LET match == OfName(latest_cf, origin_name)
    IN  IF match # <<>>
        THEN (display_name :> NumE(ILoc0(match).n))
             @@ ((display_name \o "_yi") :> Yi2(ILoc0(match).n))
        ELSE display_name :> NO_DATA

RECURSIVE CashflowLoop(_, _)
CashflowLoop(latest_cf, i) ==
    IF i > Len(cf_mapping) THEN EmptyMap
    ELSE CashflowLoop(latest_cf, i + 1)
         @@ CashflowEntries(latest_cf, cf_mapping[i][1], cf_mapping[i][2])

\* lines 410-432
CashflowSection(cashflow) ==
    LET latest_cf_date == MaxDate(cashflow)
        latest_cf == AtDate(cashflow, latest_cf_date)
    IN  IF \E i \in DOMAIN cf_mapping :
               /\ OfName(latest_cf, cf_mapping[i][1]) # <<>>
               /\ ~ILoc0(OfName(latest_cf, cf_mapping[i][1])).ok
        THEN Raised   \* line 426
        ELSE Stored("cashflow_indicators" :>
                 (("latest_cashflow_date" :> DateE(latest_cf_date))
                  @@ CashflowLoop(latest_cf, 1)))

\* a variant of the definition below: the debt and current ratios over a
\* zero denominator shown as 0
BalanceRatiosUnguarded(bs_values) ==
    (IF {"total_liabilities", "total_assets"} \subseteq DOMAIN bs_values
     THEN "debt_ratio" :>
              (IF bs_values["total_assets"] # 0
               THEN Pct1(bs_values["total_liabilities"], bs_values["total_assets"])
               ELSE Pct1(0, 1))
     ELSE EmptyMap)
    @@ (IF {"current_assets", "current_liabilities"} \subseteq DOMAIN bs_values
        THEN "current_ratio" :>
                 (IF bs_values["current_liabilities"] # 0
                  THEN Dec2(bs_values["current_assets"],
                            bs_values["current_liabilities"])
                  ELSE Dec2(0, 1))
        ELSE EmptyMap)
    @@ (IF /\ {"current_assets", "inventory", "current_liabilities"}
                  \subseteq DOMAIN bs_values
           /\ bs_values["current_liabilities"] # 0
        THEN "quick_ratio" :>
                 Dec2(bs_values["current_assets"] - bs_values["inventory"],
                      bs_values["current_liabilities"])
        ELSE EmptyMap)
\* lines 495-506; bs_values holds the fields that have a current value.  The
\* keys are debt_ratio "負債比率", current_ratio "流動比率", quick_ratio "速動比率"
BalanceRatios(bs_values) ==
    (IF /\ {"total_liabilities", "total_assets"} \subseteq DOMAIN bs_values
        /\ bs_values["total_assets"] # 0
     THEN "debt_ratio" :>
              Pct1(bs_values["total_liabilities"], bs_values["total_assets"])
     ELSE EmptyMap)
    @@ (IF /\ {"current_assets", "current_liabilities"} \subseteq DOMAIN bs_values
           /\ bs_values["current_liabilities"] # 0
        THEN "current_ratio" :>
                 Dec2(bs_values["current_assets"], bs_values["current_liabilities"])
        ELSE EmptyMap)
    @@ (IF /\ {"current_assets", "inventory", "current_liabilities"}
                  \subseteq DOMAIN bs_values
           /\ bs_values["current_liabilities"] # 0
        THEN "quick_ratio" :>
                 Dec2(bs_values["current_assets"] - bs_values["inventory"],
                      bs_values["current_liabilities"])
        ELSE EmptyMap)

\* lines 464, 470-472: display name -> current value
BsValues(latest_bs) ==
    [display_name \in
        {bs_mapping[i][2] : i \in {j \in DOMAIN bs_mapping :
                                     OfName(latest_bs, bs_mapping[j][1]) # <<>>}}
     |-> LET i == CHOOSE j \in DOMAIN bs_mapping : bs_mapping[j][2] = display_name
         IN  ILoc0(OfName(latest_bs, bs_mapping[i][1])).n]

\* lines 435-508
BalanceSection(balance_sheet) ==
    LET latest_bs_date == MaxDate(balance_sheet)
        last_year_bs_date == LastYearSameDate(latest_bs_date)
        latest_bs == AtDate(balance_sheet, latest_bs_date)
        last_year_bs == AtDate(balance_sheet, last_year_bs_date)
    IN  IF LoopRaises(latest_bs, last_year_bs, bs_mapping)
        THEN Raised
        ELSE Stored("balance_indicators" :>
                 (("latest_balance_date" :> DateE(latest_bs_date))
                  @@ LoopEntries(latest_bs, last_year_bs, bs_mapping, 1, FALSE)
                  @@ BalanceRatios(BsValues(latest_bs))))

\* lines 517-525; the keys are margin_balance "融資餘額", margin_limit
\* "融資限額", margin_usage "融資使用率"
MarginEntries(balance, limit) ==
    [margin_balance |-> Entry("lots", balance, ""),
     margin_limit |-> Entry("lots", limit, ""),
     margin_usage |-> IF limit > 0 THEN Pct2(balance, limit) ELSE CANNOT_COMPUTE]

\* lines 529-534: a value read from the last row of the frame and passed on
\* as it is.  A column of ints is an int64 column and its values are numpy
\* integers (Entry int64); a column with a float in it holds floats, a column
\* with a text in it the objects themselves.
PassedOn(per_df, field) ==
    LET value == per_df[Len(per_df)][field]
    IN  IF ~value.ok THEN StrE("as_received")
        ELSE IF \A i \in DOMAIN per_df : IsWhole(per_df[i][field])
        THEN Entry("int64", value.n, "")
        ELSE NumE(value.n)

\* lines 531-536; the keys are per "本益比", pbr "股價淨值比", dividend_yield
\* "殖利率"
PerEntries(per_df) ==
    [per |-> PassedOn(per_df, "PER"),
     pbr |-> PassedOn(per_df, "PBR"),
     dividend_yield |->
         LET latest_per == per_df[Len(per_df)]
         IN  IF latest_per.dividend_yield.n # 0
             THEN Entry("pct2", latest_per.dividend_yield.n * 100, "")
             ELSE NO_DATA]

\* lines 511-539: the format specifications of lines 522, 523 and 535 raise on
\* a value that is not a number
TradingSection(raw_data) ==
    LET has_margin == "margin_trading" \in DOMAIN raw_data
        has_per == "per_pbr" \in DOMAIN raw_data
        latest_margin ==
            raw_data["margin_trading"][Len(raw_data["margin_trading"])]
        latest_per == raw_data["per_pbr"][Len(raw_data["per_pbr"])]
    IN  IF \/ has_margin /\ ~latest_margin.MarginPurchaseTodayBalance.ok
           \/ has_margin /\ ~latest_margin.MarginPurchaseLimit.ok
           \/ has_per /\ ~latest_per.dividend_yield.ok
        THEN Raised
        ELSE LET trading_indicators ==
                     (IF has_per THEN PerEntries(raw_data["per_pbr"])
                      ELSE EmptyMap)
                     @@ (IF has_margin
                         THEN MarginEntries(
                                  latest_margin.MarginPurchaseTodayBalance.n,
                                  latest_margin.MarginPurchaseLimit.n)
                         ELSE EmptyMap)
             IN  IF trading_indicators # EmptyMap
                 THEN Stored("trading_indicators" :> trading_indicators)
                 ELSE Stored(EmptyMap)

\* dict.get(key, default)
Get(d, key, default) == IF key \in DOMAIN d THEN d[key] ELSE default

\* lines 542-562; profit_growth "獲利成長分析", asset_growth "資產成長分析"
YoYSummary(indicators) ==
    LET yoy_summary ==
            (IF "income_indicators" \in DOMAIN indicators
             THEN "profit_growth" :>
                 [net_income_yoy |-> Get(indicators["income_indicators"],
                                         "latest_q_net_income_yoy", NO_DATA),
                  eps_yoy |-> Get(indicators["income_indicators"],
                                  "latest_q_eps_yoy", NO_DATA),
                  revenue_yoy |-> Get(indicators["income_indicators"],
                                      "latest_q_revenue_yoy", NO_DATA),
                  operating_income_yoy |->
                      Get(indicators["income_indicators"],
                          "latest_q_operating_income_yoy", NO_DATA)]
             ELSE EmptyMap)
            @@ (IF "balance_indicators" \in DOMAIN indicators
                THEN "asset_growth" :>
                    [receivables_yoy |-> Get(indicators["balance_indicators"],
                                             "receivables_yoy", NO_DATA),
                     inventory_yoy |-> Get(indicators["balance_indicators"],
                                           "inventory_yoy", NO_DATA),
                     total_assets_yoy |-> Get(indicators["balance_indicators"],
                                              "total_assets_yoy", NO_DATA)]
                ELSE EmptyMap)
    IN  IF yoy_summary # EmptyMap THEN "yoy_summary" :> yoy_summary ELSE EmptyMap

\* lines 565-579: seven shareholding items that need the Market Observation
\* Post System, two special events that need material-news announcements
UnavailableItems ==
    "finmind_unavailable_items" :>
        [shareholding |-> [n |-> 7, needs |-> "market_observation_post_system"],
         special_events |-> [n |-> 2, needs |-> "material_news"]]

\* the sections that can raise, in the order of lines 292-539
SectionsOf(raw_data) ==
    << IF "basic_info" \in DOMAIN raw_data
       THEN BasicSection(raw_data["basic_info"]) ELSE Stored(EmptyMap),
       IF "financial_statement" \in DOMAIN raw_data
       THEN FinancialSection(raw_data["financial_statement"])
       ELSE Stored(EmptyMap),
       IF "monthly_revenue" \in DOMAIN raw_data
       THEN MonthlySection(raw_data["monthly_revenue"]) ELSE Stored(EmptyMap),
       IF "cashflow" \in DOMAIN raw_data
       THEN CashflowSection(raw_data["cashflow"]) ELSE Stored(EmptyMap),
       IF "balance_sheet" \in DOMAIN raw_data
       THEN BalanceSection(raw_data["balance_sheet"]) ELSE Stored(EmptyMap),
       TradingSection(raw_data) >>

\* lines 581-583: str(e) under "計算錯誤"
CalcError == "calc_error" :> StrE("exception_text")

\* a variant of the definition below: a section that raises is noted and the
\* sections after it are still computed
RECURSIVE RunSectionsSkipping(_, _, _)
RunSectionsSkipping(sections, i, indicators) ==
    IF i > Len(sections)
    THEN indicators @@ YoYSummary(indicators) @@ UnavailableItems
    ELSE IF sections[i].fault
    THEN RunSectionsSkipping(sections, i + 1, indicators @@ CalcError)
    ELSE RunSectionsSkipping(sections, i + 1, indicators @@ sections[i].out)
\* lines 289-583: the sections in order inside one try block
RECURSIVE RunSections(_, _, _)
RunSections(sections, i, indicators) ==
    IF i > Len(sections)
    THEN indicators @@ YoYSummary(indicators) @@ UnavailableItems
    ELSE IF sections[i].fault
    THEN indicators @@ CalcError
    ELSE RunSections(sections, i + 1, indicators @@ sections[i].out)

\* lines 285-585
CalculateBasicIndicators(raw_data) ==
    RunSections(SectionsOf(raw_data), 1, EmptyMap)

(***************************************************************************)
(* fetch_data and collect_all_data.                                        *)
(*                                                                         *)
(* upstream[dataset] is what the data source answers for the dataset:      *)
(*   kind "error"   an exception, an HTTP status other than 200, or a body *)
(*                  whose status is not 200                                *)
(*   kind "list"    a body with status 200 whose data is the list `data`   *)
(*   kind "scalar"  a body with status 200 whose data is a non-zero number *)
(* start_date (line 149) only goes into the request and is not modelled.   *)
(*                                                                         *)
(* Keys of data_availability:                                              *)
(*   basic_info_area "基本資料區", income_statement_data "損益表資料",     *)
(*   monthly_revenue_data "月營收資料", cashflow_statement "現金流量表",   *)
(*   balance_sheet_data "資產負債表", margin_trading_data "融資融券",      *)
(*   daily_price_data "日股價資料", day_trading_data "當沖資料",           *)
(*   per_data "本益比資料", shareholding_data "籌碼資料",                  *)
(*   special_events "特殊事件"                                             *)
(* and its values: available "可用", Entry("available", n, "") "可用       *)
(* (n筆)", stock_not_found "找不到該股票", api_error "API錯誤", no_data     *)
(* "無資料".                                                               *)
(***************************************************************************)
None == [truthy |-> FALSE, is_list |-> FALSE, data |-> <<>>]

\* lines 146-169: None unless the body's status is 200 and its data is truthy
FetchData(up, dataset) ==
    LET answer == up[dataset]
    IN  IF answer.kind = "list" /\ answer.data # <<>>
        THEN [truthy |-> TRUE, is_list |-> TRUE, data |-> answer.data]
        ELSE IF answer.kind = "scalar"
        THEN [truthy |-> TRUE, is_list |-> FALSE, data |-> <<>>]
        ELSE None

\* the fetches of lines 185-266 in order: dataset, raw_data key,
\* data_availability key
Steps ==
    << <<"TaiwanStockInfo", "basic_info", "basic_info_area">>,
       <<"TaiwanStockFinancialStatements", "financial_statement",
         "income_statement_data">>,
       <<"TaiwanStockMonthRevenue", "monthly_revenue", "monthly_revenue_data">>,
       <<"TaiwanStockCashFlowsStatement", "cashflow", "cashflow_statement">>,
       <<"TaiwanStockBalanceSheet", "balance_sheet", "balance_sheet_data">>,
       <<"TaiwanStockMarginPurchaseShortSale", "margin_trading",
         "margin_trading_data">>,
       <<"TaiwanStockDaily", "daily_price", "daily_price_data">>,
       <<"TaiwanStockDayTrading", "day_trading", "day_trading_data">>,
       <<"TaiwanStockPER", "per_pbr", "per_data">> >>

Datasets == {Steps[i][1] : i \in DOMAIN Steps}

\* a variant of the definition below: the first record of the company list
\* kept when none is of the requested stock
BasicStepKeepingFirst(acc, basic_data, stock_code) ==
    IF basic_data.truthy
    THEN LET stock_info ==
                 SelectSeq(basic_data.data, LAMBDA item : item.stock_id = stock_code)
         IN  [acc EXCEPT
                 !.raw_data =
                     ("basic_info" :> IF stock_info # <<>> THEN stock_info[1]
                                      ELSE basic_data.data[1]) @@ @,
                 !.data_availability =
                     ("basic_info_area" :>
                         IF stock_info # <<>> THEN StrE("available")
                         ELSE StrE("stock_not_found")) @@ @]
    ELSE [acc EXCEPT
            !.data_availability = ("basic_info_area" :> StrE("api_error")) @@ @]
\* lines 186-194
BasicStep(acc, basic_data, stock_code) ==
    IF basic_data.truthy
    THEN LET stock_info ==
                 SelectSeq(basic_data.data, LAMBDA item : item.stock_id = stock_code)
         IN  IF stock_info # <<>>
             THEN [acc EXCEPT
                     !.raw_data = ("basic_info" :> stock_info[1]) @@ @,
                     !.data_availability =
                         ("basic_info_area" :> StrE("available")) @@ @]
             ELSE [acc EXCEPT
                     !.data_availability =
                         ("basic_info_area" :> StrE("stock_not_found")) @@ @]
    ELSE [acc EXCEPT
            !.data_availability = ("basic_info_area" :> StrE("api_error")) @@ @]

\* a variant of the definition below: a dataset that did not arrive ends
\* the run
DatasetStepAllOrNothing(acc, key, label, data) ==
    IF data.truthy
    THEN [acc EXCEPT
            !.raw_data = (key :> data.data) @@ @,
            !.data_availability =
                (label :> Entry("available", Len(data.data), "")) @@ @]
    ELSE [acc EXCEPT !.raised = TRUE]
\* lines 198-203, 207-212, ..., 261-266
DatasetStep(acc, key, label, data) ==
    IF data.truthy
    THEN [acc EXCEPT
            !.raw_data = (key :> data.data) @@ @,
            !.data_availability =
                (label :> Entry("available", Len(data.data), "")) @@ @]
    ELSE [acc EXCEPT !.data_availability = (label :> NO_DATA) @@ @]

\* the i-th fetch of lines 185-266 and what is done with its answer.  fetched
\* lists the datasets requested; raised says that a statement outside
\* fetch_data raised: iterating (line 187) or len() (lines 201, 210, ...) of
\* data that is not a list.
FetchOne(up, stock_code, i, acc) ==
    LET data == FetchData(up, Steps[i][1])
        requested == [acc EXCEPT !.fetched = Append(@, Steps[i][1])]
    IN  IF data.truthy /\ ~data.is_list
        THEN [requested EXCEPT !.raised = TRUE]
        ELSE IF i = 1 THEN BasicStep(requested, data, stock_code)
        ELSE DatasetStep(requested, Steps[i][2], Steps[i][3], data)

\* lines 183-266: the fetches in order, up to the first that raises
RECURSIVE FetchAll(_, _, _, _)
FetchAll(up, stock_code, i, acc) ==
    IF acc.raised \/ i > Len(Steps) THEN acc
    ELSE FetchAll(up, stock_code, i + 1, FetchOne(up, stock_code, i, acc))

\* lines 174-181: nothing fetched yet
NothingFetched ==
    [raw_data |-> EmptyMap, data_availability |-> EmptyMap,
     fetched |-> <<>>, raised |-> FALSE]

Fetches(up, stock_code) == FetchAll(up, stock_code, 1, NothingFetched)

\* lines 269-270
AlwaysUnavailable ==
    [shareholding_data |-> StrE("finmind_none_needs_mops"),
     special_events |-> StrE("finmind_none_needs_material_news")]

\* lines 183-273: the part of a run that does not read the clock: the
\* fetches, and the calculation when none of them raised
Gathered(up, stock_code) ==
    LET acc == Fetches(up, stock_code)
    IN  [fetched |-> acc.fetched,
         raised |-> acc.raised,
         data_availability |-> acc.data_availability,
         raw_data |-> acc.raw_data,
         calculated_indicators |->
            IF acc.raised THEN EmptyMap
            ELSE CalculateBasicIndicators(acc.raw_data)]

\* a variant of the definition below: the time of the run also noted in
\* data_availability
ResultStampedTwice(stock_code, timestamp, gathered) ==
    [success |-> TRUE,
     stock_code |-> stock_code,
     timestamp |-> timestamp,
     data_availability |->
        ("basic_info_area" :> Entry("checked_at", timestamp, ""))
        @@ gathered.data_availability @@ AlwaysUnavailable,
     raw_data |-> gathered.raw_data,
     calculated_indicators |-> gathered.calculated_indicators]
\* lines 174-181 and 269-275: the result of a run that did not raise
SuccessResult(stock_code, timestamp, gathered) ==
    [success |-> TRUE,
     stock_code |-> stock_code,
     timestamp |-> timestamp,
     data_availability |-> gathered.data_availability @@ AlwaysUnavailable,
     raw_data |-> gathered.raw_data,
     calculated_indicators |-> gathered.calculated_indicators]

\* lines 277-283
FailureResult(stock_code, timestamp) ==
    [success |-> FALSE,
     stock_code |-> stock_code,
     error |-> "exception_text",
     timestamp |-> timestamp]

\* lines 171-283: what a run returns, the clock read at line 177 or 282
Returned(stock_code, timestamp, gathered) ==
    IF gathered.raised THEN FailureResult(stock_code, timestamp)
    ELSE SuccessResult(stock_code, timestamp, gathered)

CollectAllData(up, stock_code, timestamp) ==
    Returned(stock_code, timestamp, Gathered(up, stock_code))

(***************************************************************************)
(* The routes.                                                             *)
(***************************************************************************)
\* lines 609 and 623
InvalidCode(stock_code) == Len(stock_code) < 4

InvalidCodeResponse(route) ==
    [route |-> route, status |-> 400,
     body |-> [success |-> FALSE, error |-> "invalid_stock_code"]]

\* jsonify (lines 616, 618, 708) raises TypeError on a value its encoder does
\* not know; a numpy integer is one.  The only values that reach a result
\* without float() or a format specification are the two of lines 533-534.
Serializable(result) ==
    (result.success
     /\ "trading_indicators" \in DOMAIN result.calculated_indicators
     /\ "per" \in DOMAIN result.calculated_indicators["trading_indicators"])
        => LET trading == result.calculated_indicators["trading_indicators"]
           IN  trading.per.t # "int64" /\ trading.pbr.t # "int64"

\* an exception that leaves the view function: the server's own error page
ServerError(route) ==
    [route |-> route, status |-> 500, body |-> [page |-> "internal_server_error"]]

\* lines 615-618
DarkIndicatorsResponse(result) ==
    IF Serializable(result)
    THEN [route |-> "dark-indicators",
          status |-> IF result.success THEN 200 ELSE 500,
          body |-> result]
    ELSE ServerError("dark-indicators")

\* lines 636-706: the data regrouped for the analyst.  The fixed texts
\* (data_source, risk_analysis_framework, analysis_instructions) and the
\* response's own clock readings (analysis_date, line 639; timestamp, line
\* 712) are left out.
AiReadyData(stock_code, all_data) ==
    [analysis_target |-> [stock_code |-> stock_code],
     available_data |-> all_data.data_availability,
     financial_data |->
        [k \in {"basic_info_section", "income_indicators",
                "monthly_revenue_indicators", "cashflow_indicators",
                "balance_indicators", "trading_indicators", "yoy_summary"}
         |-> Get(all_data.calculated_indicators, k, EmptyMap)],
     missing_data_items |->
        Get(all_data.calculated_indicators, "finmind_unavailable_items", EmptyMap)]

\* lines 626-721
RawDataResponse(stock_code, all_data) ==
    IF ~all_data.success
    THEN [route |-> "raw-data", status |-> 500, body |-> all_data]
    ELSE IF Serializable(all_data)
    THEN [route |-> "raw-data", status |-> 200,
          body |-> [success |-> TRUE,
                    ready_for_ai_analysis |-> TRUE,
                    data |-> AiReadyData(stock_code, all_data)]]
    ELSE [route |-> "raw-data", status |-> 500,   \* lines 716-721
          body |-> [success |-> FALSE, error |-> "exception_text"]]

(***************************************************************************)
(* The inputs: what the data source can answer.                            *)
(***************************************************************************)
\* rows in a batch that is varied freely
MaxRecords == 2
\* the wall clock shows a value of 0..MaxClock when it is read
MaxClock == 1

Clock == 0..MaxClock

Row(date, origin_name, value) ==
    [date |-> date, origin_name |-> origin_name, value |-> value]

\* every sequence of 1..MaxRecords elements of S
Batches(S) == UNION {[1..n -> S] : n \in 1..MaxRecords}

Err == [kind |-> "error", data |-> <<>>]
List(data) == [kind |-> "list", data |-> data]
Scalar == [kind |-> "scalar", data |-> <<>>]

Profile(stock_id, stock_name) ==
    [stock_id |-> stock_id, stock_name |-> stock_name,
     industry_category |-> "industry", type |-> "twse"]

\* one well-formed answer per dataset
Base ==
    ("TaiwanStockInfo" :> List(<<Profile("1101", "name_1101"),
                                 Profile("2330", "name_2330")>>))
    @@ ("TaiwanStockFinancialStatements" :>
            List(<<Row(<<2023, 6, 30>>, "Revenue", Num(2)),
                   Row(<<2024, 6, 30>>, "Revenue", Num(3)),
                   Row(<<2024, 6, 30>>, "OperatingIncome", Num(2))>>))
    @@ ("TaiwanStockMonthRevenue" :>
            List(<<[date |-> <<2023, 5, 1>>, revenue |-> Num(2)],
                   [date |-> <<2024, 5, 1>>, revenue |-> Num(3)]>>))
    @@ ("TaiwanStockCashFlowsStatement" :>
            List(<<Row(<<2024, 6, 30>>, "CashFlowsFromOperatingActivities",
                       Num(-1))>>))
    @@ ("TaiwanStockBalanceSheet" :>
            List(<<Row(<<2023, 6, 30>>, "AccountsReceivableNet", Num(2)),
                   Row(<<2024, 6, 30>>, "AccountsReceivableNet", Num(3)),
                   Row(<<2024, 6, 30>>, "TotalAssets", Num(3)),
                   Row(<<2024, 6, 30>>, "Liabilities", Num(2))>>))
    @@ ("TaiwanStockMarginPurchaseShortSale" :>
            List(<<[date |-> <<2024, 6, 28>>,
                    MarginPurchaseTodayBalance |-> Num(2),
                    MarginPurchaseLimit |-> Num(3)]>>))
    @@ ("TaiwanStockDaily" :>
            List(<<[date |-> <<2024, 6, 28>>, Trading_Volume |-> Num(3)]>>))
    @@ ("TaiwanStockDayTrading" :>
            List(<<[date |-> <<2024, 6, 28>>, Volume |-> Num(2)]>>))
    @@ ("TaiwanStockPER" :>
            List(<<[date |-> <<2024, 6, 28>>, PER |-> Num(3), PBR |-> Num(2),
                    dividend_yield |-> Num(3)]>>))

\* Base with the answer for one dataset replaced by each batch of a set
Varying(dataset, batches) ==
    {[Base EXCEPT ![dataset] = List(b)] : b \in batches}

\* every combination of failed and answered fetches, the requested stock
\* being in the company list, and the company list without it
AvailabilityWorlds ==
    {[d \in Datasets |-> IF d \in answered THEN Base[d] ELSE Err]
        : answered \in SUBSET Datasets}
    \cup {[d \in Datasets |->
                IF d = "TaiwanStockInfo"
                THEN List(<<Profile("1101", "name_1101")>>)
                ELSE IF d = failed THEN Err ELSE Base[d]]
            : failed \in Datasets}

\* an answer that is an empty list, or not a list at all
MalformedWorlds ==
    {[Base EXCEPT ![d] = a] : d \in Datasets, a \in {List(<<>>), Scalar}}

\* rows of a quarterly statement: a field a year ago and now, and a second
\* field now
QuarterlyRows(field, prior_values, values, other, other_values) ==
    {Row(<<2023, 6, 30>>, field, v) : v \in prior_values}
    \cup {Row(<<2024, 6, 30>>, field, v) : v \in values}
    \cup {Row(<<2024, 6, 30>>, other, v) : v \in other_values}

\* rows of a quarterly statement whose latest date is a leap day
LeapRows(field) ==
    {Row(d, field, v) : d \in {<<2023, 6, 30>>, <<2024, 2, 29>>},
                        v \in {Num(2), Num(3)}}

\* rows of one date, each field absent or present
OptionalRow(origin_name, numbers) ==
    {<<>>} \cup {<<Row(<<2024, 6, 30>>, origin_name, Num(n))>> : n \in numbers}

IncomeWorlds ==
    Varying("TaiwanStockFinancialStatements",
        Batches(QuarterlyRows("Revenue", {Num(-1), Num(0), Num(3)},
                              {Num(-1), Num(2)}, "OperatingIncome", {}))
        \cup Batches(QuarterlyRows("Revenue", {NotANumber}, {Num(2)},
                                   "OperatingIncome", {Num(2), NotANumber}))
        \cup Batches(LeapRows("Revenue"))
        \cup ({rev \o op \o gp :
                  rev \in OptionalRow("Revenue", {0, 3}),
                  op \in OptionalRow("OperatingIncome", {2}),
                  gp \in OptionalRow("GrossProfit", {-1})} \ {<<>>}))

BalanceWorlds ==
    Varying("TaiwanStockBalanceSheet",
        Batches(QuarterlyRows("AccountsReceivableNet", {Num(0), Num(3)},
                              {Num(2)}, "Inventories", {}))
        \cup Batches(QuarterlyRows("AccountsReceivableNet", {NotANumber},
                                   {Num(2)}, "Inventories", {NotANumber}))
        \cup Batches(LeapRows("AccountsReceivableNet"))
        \cup ({tl \o ta : tl \in OptionalRow("Liabilities", {2}),
                          ta \in OptionalRow("TotalAssets", {0, 3})} \ {<<>>})
        \cup ({ca \o inv \o cl :
                  ca \in OptionalRow("CurrentAssets", {2}),
                  inv \in OptionalRow("Inventories", {-1}),
                  cl \in OptionalRow("CurrentLiabilities", {0, 3})} \ {<<>>}))

MonthlyWorlds ==
    Varying("TaiwanStockMonthRevenue",
        Batches({[date |-> d, revenue |-> v] :
                    d \in {<<2023, 5, 1>>, <<2024, 5, 1>>},
                    v \in {Num(0), Num(3)}})
        \cup Batches({[date |-> <<2023, 5, 1>>, revenue |-> Num(3)],
                      [date |-> <<2024, 5, 1>>, revenue |-> Num(3)],
                      [date |-> <<2024, 5, 1>>, revenue |-> NotANumber]}))

CashflowWorlds ==
    Varying("TaiwanStockCashFlowsStatement",
        Batches({Row(<<2023, 6, 30>>, "CashFlowsFromOperatingActivities", Num(2)),
                 Row(<<2024, 6, 30>>, "CashFlowsFromOperatingActivities", Num(-1)),
                 Row(<<2024, 6, 30>>, "CashFlowsFromOperatingActivities",
                     NotANumber)}))

MarginWorlds ==
    Varying("TaiwanStockMarginPurchaseShortSale",
        Batches({[date |-> <<2024, 6, r[1]>>,
                  MarginPurchaseTodayBalance |-> r[2],
                  MarginPurchaseLimit |-> r[3]]
                    : r \in {<<28, Num(2), Num(3)>>, <<27, Num(2), Num(0)>>,
                             <<28, NotANumber, Num(3)>>,
                             <<27, Num(2), NotANumber>>}}))

PerWorlds ==
    Varying("TaiwanStockPER",
        Batches({[date |-> <<2024, 6, r[1]>>, PER |-> r[2], PBR |-> Num(2),
                  dividend_yield |-> r[3]]
                    : r \in {<<27, Num(3), Num(0)>>, <<28, Num(3), Num(3)>>,
                             <<28, Num(3), NotANumber>>,
                             <<28, Whole(3), Num(3)>>}}))

Worlds ==
    AvailabilityWorlds \cup MalformedWorlds \cup IncomeWorlds
    \cup BalanceWorlds \cup MonthlyWorlds
    \cup CashflowWorlds \cup MarginWorlds \cup PerWorlds

\* the stock codes a request can carry: the longest the routes refuse, and
\* one they accept
StockCodes == {"233", "2330"}

(***************************************************************************)
(* State, initial state and the handlers.                                  *)
(*   upstream     what the data source answers for stock 2330 (fixed in a  *)
(*                behaviour)                                               *)
(*   collector    the module-level DarkIndicatorDataCollector              *)
(*   invocations  the collect_all_data invocations running side by side,   *)
(*                one per thread                                           *)
(*   request      the last request received                                *)
(*   collected  what the last collect_all_data invocation returned         *)
(*   previous   what the invocation before it returned                     *)
(*   fetch_log  the datasets requested while handling the last request     *)
(*   response   the last response sent                                     *)
(***************************************************************************)
NoResult == [success |-> FALSE, stock_code |-> "", error |-> "never_invoked",
             timestamp |-> 0]
NoResponse == [route |-> "none", status |-> 0, body |-> EmptyMap]
NoRequest == [route |-> "none", stock_code |-> ""]

\* lines 16-144 and 588: the collector as constructed
Constructed ==
    [base_url |-> "https://api.finmindtrade.com/api/v4/data",
     indicator_mapping |-> "indicator_mapping"]

MaxThreads == 2
Threads == 1..MaxThreads

\* an invocation that has not been called
Idle ==
    [pc |-> "idle", stock_code |-> "", timestamp |-> 0, i |-> 0,
     acc |-> NothingFetched, result |-> NoResult]

Init ==
    /\ upstream \in Worlds
    /\ collector = Constructed
    /\ invocations = [t \in Threads |-> Idle]
    /\ request = NoRequest
    /\ collected = NoResult
    /\ previous = NoResult
    /\ fetch_log = <<>>
    /\ response = NoResponse

\* lines 606-618; the clock is read at line 177 or line 282
get_dark_indicators ==
    \E stock_code \in StockCodes :
        IF InvalidCode(stock_code)
        THEN /\ request' = [route |-> "dark-indicators", stock_code |-> stock_code]
             /\ response' = InvalidCodeResponse("dark-indicators")
             /\ fetch_log' = <<>>
             /\ UNCHANGED <<upstream, collector, invocations, collected,
                            previous>>
        ELSE \E gathered \in {Gathered(upstream, stock_code)} :
             \E timestamp \in Clock :
             \E all_data \in {Returned(stock_code, timestamp, gathered)} :
                /\ collected' = all_data
                /\ previous' = collected
                /\ fetch_log' = gathered.fetched
                /\ response' = DarkIndicatorsResponse(all_data)
                /\ request' = [route |-> "dark-indicators",
                               stock_code |-> stock_code]
                /\ UNCHANGED <<upstream, collector, invocations>>

\* lines 620-721
get_raw_data ==
    \E stock_code \in StockCodes :
        IF InvalidCode(stock_code)
        THEN /\ request' = [route |-> "raw-data", stock_code |-> stock_code]
             /\ response' = InvalidCodeResponse("raw-data")
             /\ fetch_log' = <<>>
             /\ UNCHANGED <<upstream, collector, invocations, collected,
                            previous>>
        ELSE \E gathered \in {Gathered(upstream, stock_code)} :
             \E timestamp \in Clock :
             \E all_data \in {Returned(stock_code, timestamp, gathered)} :
                /\ collected' = all_data
                /\ previous' = collected
                /\ fetch_log' = gathered.fetched
                /\ response' = RawDataResponse(stock_code, all_data)
                /\ request' = [route |-> "raw-data", stock_code |-> stock_code]
                /\ UNCHANGED <<upstream, collector, invocations>>

Next == get_dark_indicators \/ get_raw_data

Spec == Init /\ [][Next]_vars

(***************************************************************************)
(* collect_all_data invocations running side by side on the one collector, *)
(* as the threads of the server run them.  The dictionaries an invocation  *)
(* builds are its locals; what another thread can observe between two of   *)
(* its steps is the collector, so an invocation is cut at its fetches.     *)
(***************************************************************************)
\* the stock code each thread is called with: two listed ones, one not listed
ThreadCodes == <<"2330", "1101", "2317">>

\* what the data source answers for a stock code
AnswersTo(up, stock_code) == IF stock_code = "2330" THEN up ELSE Base

\* well-formed answers, failed fetches, an answer that makes the run raise
\* half way, and a value that makes the calculation raise
ConcurrentWorlds ==
    {Base,
     [Base EXCEPT !["TaiwanStockMonthRevenue"] = Err, !["TaiwanStockPER"] = Err],
     [Base EXCEPT !["TaiwanStockBalanceSheet"] = Scalar],
     [Base EXCEPT !["TaiwanStockFinancialStatements"] =
                      List(<<Row(<<2024, 6, 30>>, "Revenue", NotANumber)>>)]}

\* a variant of the definition below: one result dictionary, that of the
\* first thread, used by every invocation
ResultOfFirst(running, t) == running[1]
\* line 174: result is a local of the invocation
OwnResult(running, t) == running[t]

InitConcurrent ==
    /\ upstream \in ConcurrentWorlds
    /\ collector = Constructed
    /\ invocations = [t \in Threads |-> Idle]
    /\ request = NoRequest
    /\ collected = NoResult
    /\ previous = NoResult
    /\ fetch_log = <<>>
    /\ response = NoResponse

\* lines 171-181: the call, the clock read at line 177
enter ==
    \E t \in Threads, timestamp \in Clock :
        /\ invocations[t].pc = "idle"
        /\ invocations' =
               [invocations EXCEPT ![t] =
                   [pc |-> "fetch", stock_code |-> ThreadCodes[t],
                    timestamp |-> timestamp, i |-> 1,
                    acc |-> NothingFetched, result |-> NoResult]]
        /\ UNCHANGED <<upstream, collector, request, collected, previous,
                       fetch_log, response>>

\* one fetch of lines 185-266, and lines 277-283 when it raises
fetch ==
    \E t \in Threads :
        /\ invocations[t].pc = "fetch"
        /\ LET stock_code == invocations[t].stock_code
               acc == FetchOne(AnswersTo(upstream, stock_code), stock_code,
                               invocations[t].i,
                               OwnResult(invocations, t).acc)
           IN  IF acc.raised
               THEN \E timestamp \in Clock :
                        invocations' =
                            [invocations EXCEPT
                                ![t].pc = "done",
                                ![t].acc = acc,
                                ![t].result = FailureResult(stock_code, timestamp)]
               ELSE invocations' =
                        [invocations EXCEPT
                            ![t].pc = IF invocations[t].i = Len(Steps)
                                      THEN "calculate" ELSE "fetch",
                            ![t].i = @ + 1,
                            ![t].acc = acc]
        /\ UNCHANGED <<upstream, collector, request, collected, previous,
                       fetch_log, response>>

\* lines 269-275
calculate ==
    \E t \in Threads :
        /\ invocations[t].pc = "calculate"
        /\ LET acc == OwnResult(invocations, t).acc
               gathered ==
                   [fetched |-> acc.fetched,
                    raised |-> FALSE,
                    data_availability |-> acc.data_availability,
                    raw_data |-> acc.raw_data,
                    calculated_indicators |->
                        CalculateBasicIndicators(acc.raw_data)]
           IN  invocations' =
                   [invocations EXCEPT
                       ![t].pc = "done",
                       ![t].result = SuccessResult(invocations[t].stock_code,
                                                   invocations[t].timestamp,
                                                   gathered)]
        /\ UNCHANGED <<upstream, collector, request, collected, previous,
                       fetch_log, response>>

NextConcurrent == enter \/ fetch \/ calculate

SpecConcurrent == InitConcurrent /\ [][NextConcurrent]_vars

(***************************************************************************)
(* Properties of the result of the last run.                               *)
(***************************************************************************)
\* the last request ran collect_all_data: collected and fetch_log are its
Ran == response.status \in {200, 500}

\* the indicator map of the last run, empty when the run returned a failure
Indicators ==
    IF collected.success THEN collected.calculated_indicators ELSE EmptyMap

\* v is an integer nearest to n/d
Nearest(v, n, d) == 2 * Abs(v * d - n) <= Abs(d)

\* the two statement sections: key in the indicator map, key in raw_data,
\* tracked fields
StatementSections ==
    {[section |-> "income_indicators", raw |-> "financial_statement",
      mapping |-> financial_mapping],
     [section |-> "balance_indicators", raw |-> "balance_sheet",
      mapping |-> bs_mapping]}

\* the records of a field at a date, in the order received
RecordsAt(df, date, origin_name) == OfName(AtDate(df, date), origin_name)

\* the same calendar date a year before, June 30 of that year for a leap day
TargetDate(latest) ==
    IF latest[2] = 2 /\ latest[3] = 29
    THEN <<latest[1] - 1, 6, 30>>
    ELSE <<latest[1] - 1, latest[2], latest[3]>>

\* no record that arrived holds a value that is not a number
NumbersOnly(raw_data) ==
    /\ \A key \in {"financial_statement", "cashflow", "balance_sheet"}
                  \cap DOMAIN raw_data :
           \A i \in DOMAIN raw_data[key] : raw_data[key][i].value.ok
    /\ "monthly_revenue" \in DOMAIN raw_data
           => NumericColumn(raw_data["monthly_revenue"])
    /\ "margin_trading" \in DOMAIN raw_data
           => \A i \in DOMAIN raw_data["margin_trading"] :
                  /\ raw_data["margin_trading"][i].MarginPurchaseTodayBalance.ok
                  /\ raw_data["margin_trading"][i].MarginPurchaseLimit.ok
    /\ "per_pbr" \in DOMAIN raw_data
           => \A i \in DOMAIN raw_data["per_pbr"] :
                  raw_data["per_pbr"][i].dividend_yield.ok

\* the growth entry of one tracked field of a stored statement section, c and
\* p being the first record of the field at the latest date and at the
\* prior-year target date; exact asks for the quotient itself, otherwise for
\* the quotient to one decimal place
FieldGrowth(section, df, origin_name, display_name, exact) ==
    LET current == RecordsAt(df, MaxDate(df), origin_name)
        prior == RecordsAt(df, LastYearSameDate(MaxDate(df)), origin_name)
        yoy == display_name \o "_yoy"
    IN  current # <<>> =>
            /\ yoy \in DOMAIN section
            /\ IF prior = <<>> THEN section[yoy] = NO_PRIOR_YEAR_DATA
               ELSE IF prior[1].value.n = 0 THEN section[yoy] = PRIOR_YEAR_ZERO
               ELSE LET c == current[1].value.n
                        p == prior[1].value.n
                    IN  /\ section[yoy].t = "pct1"
                        /\ IF exact
                           THEN section[yoy].v * Abs(p) = 1000 * (c - p)
                           ELSE Nearest(section[yoy].v, 1000 * (c - p), Abs(p))

GrowthOfEveryField(exact) ==
    \A s \in StatementSections :
        s.section \in DOMAIN Indicators =>
            \A i \in DOMAIN s.mapping :
                FieldGrowth(Indicators[s.section], collected.raw_data[s.raw],
                            s.mapping[i][1], s.mapping[i][2], exact)

\* C1 as amended: in every stored statement section, a tracked field with a
\* current value c and a prior-year value p # 0 has as growth entry
\* (c - p)/abs(p) * 100 rounded to one decimal place and shown as a percent
\* text; with p = 0 the entry is the 'prior year is zero' sentinel, with no
\* prior-year record the 'no prior-year data' sentinel, never a number.
C1_GrowthToOneDecimal == GrowthOfEveryField(FALSE)

\* C1 as written: the growth entry equals (c - p)/abs(p) * 100.
C1_GrowthExact == GrowthOfEveryField(TRUE)

\* C1: current revenue 2 against 3 a year before: -33.3%
C1_Witness ==
    /\ "income_indicators" \in DOMAIN Indicators
    /\ "latest_q_revenue_yoy" \in DOMAIN Indicators["income_indicators"]
    /\ Indicators["income_indicators"]["latest_q_revenue_yoy"]
           = Entry("pct1", -333, "")

\* C2: every quotient of the computation is guarded: the monthly revenue
\* growth is populated only when last year's same-month revenue exists and is
\* not zero, a statement field's growth is a number only when its prior-year
\* value is not zero, a margin or balance ratio is present only when its
\* denominator is not zero, and the margin usage is a number only when the
\* limit is not zero.
C2_NoZeroDenominator ==
    /\ "monthly_revenue_indicators" \in DOMAIN Indicators =>
           LET df == collected.raw_data["monthly_revenue"]
               current_date == df[Len(df)].date
               last_year == SelectSeq(df,
                               LAMBDA r : /\ r.date[1] = current_date[1] - 1
                                          /\ r.date[2] = current_date[2])
           IN  last_year # <<>> /\ last_year[1].revenue.n # 0
    /\ \A s \in StatementSections :
           s.section \in DOMAIN Indicators =>
               \A i \in DOMAIN s.mapping :
                   LET df == collected.raw_data[s.raw]
                       prior == RecordsAt(df, LastYearSameDate(MaxDate(df)),
                                          s.mapping[i][1])
                       yoy == s.mapping[i][2] \o "_yoy"
                   IN  (/\ yoy \in DOMAIN Indicators[s.section]
                        /\ Indicators[s.section][yoy].t = "pct1")
                           => prior # <<>> /\ prior[1].value.n # 0
    /\ \A key \in {"operating_margin_pct", "gross_margin_pct"} :
           key \in DOMAIN Indicators =>
               LET df == collected.raw_data["financial_statement"]
                   revenue == RecordsAt(df, MaxDate(df), "Revenue")
               IN  revenue # <<>> /\ revenue[1].value.n # 0
    /\ "balance_indicators" \in DOMAIN Indicators =>
           LET df == collected.raw_data["balance_sheet"]
               Zero(origin_name) ==
                   LET match == RecordsAt(df, MaxDate(df), origin_name)
                   IN  match = <<>> \/ match[1].value.n = 0
               section == Indicators["balance_indicators"]
           IN  /\ "debt_ratio" \in DOMAIN section => ~Zero("TotalAssets")
               /\ "current_ratio" \in DOMAIN section => ~Zero("CurrentLiabilities")
               /\ "quick_ratio" \in DOMAIN section => ~Zero("CurrentLiabilities")
    /\ ("trading_indicators" \in DOMAIN Indicators
        /\ "margin_usage" \in DOMAIN Indicators["trading_indicators"]
        /\ Indicators["trading_indicators"]["margin_usage"].t = "pct2") =>
           LET df == collected.raw_data["margin_trading"]
           IN  df[Len(df)].MarginPurchaseLimit.n # 0

\* the prior-year rule of one tracked field of a stored statement section,
\* the target date written out; every_field asks the sentinel of every
\* tracked field, otherwise of the fields that have a current value
PriorYearRule(section, df, origin_name, display_name, every_field) ==
    LET current == RecordsAt(df, MaxDate(df), origin_name)
        prior == RecordsAt(df, TargetDate(MaxDate(df)), origin_name)
        yoy == display_name \o "_yoy"
    IN  IF current # <<>> \/ every_field
        THEN /\ yoy \in DOMAIN section
             /\ section[yoy] = NO_PRIOR_YEAR_DATA <=> prior = <<>>
        ELSE /\ section[display_name] = NO_DATA
             /\ yoy \notin DOMAIN section

\* C3 as amended: the prior-year target of a statement section is the latest
\* date one year back, June 30 of the previous year when that date does not
\* exist (a leap day), and the fallback raises nothing: a statement of
\* numbers is stored.  A tracked field that has a current value gets the 'no
\* prior-year data' sentinel exactly when it has no record at the target
\* date; a tracked field without a current value gets the 'no data' sentinel
\* and no growth entry.
C3_TargetDateAndSentinel ==
    \A s \in StatementSections :
        /\ (collected.success /\ s.raw \in DOMAIN collected.raw_data
            /\ NumbersOnly(collected.raw_data))
               => s.section \in DOMAIN Indicators
        /\ s.section \in DOMAIN Indicators =>
               \A i \in DOMAIN s.mapping :
                   PriorYearRule(Indicators[s.section],
                                 collected.raw_data[s.raw],
                                 s.mapping[i][1], s.mapping[i][2], FALSE)

\* C3 as written: when the statement has no record at the target date, every
\* tracked field gets the 'no prior-year data' sentinel.
C3_EveryFieldSentinel ==
    \A s \in StatementSections :
        (/\ s.section \in DOMAIN Indicators
         /\ AtDate(collected.raw_data[s.raw],
                   TargetDate(MaxDate(collected.raw_data[s.raw]))) = <<>>)
            => \A i \in DOMAIN s.mapping :
                   PriorYearRule(Indicators[s.section],
                                 collected.raw_data[s.raw],
                                 s.mapping[i][1], s.mapping[i][2], TRUE)

\* C3: the latest income statement is dated on a leap day and the revenue's
\* growth was computed against June 30 of the year before
C3_Witness ==
    /\ "income_indicators" \in DOMAIN Indicators
    /\ MaxDate(collected.raw_data["financial_statement"]) = <<2024, 2, 29>>
    /\ Indicators["income_indicators"]["latest_q_revenue_yoy"].t = "pct1"
    /\ Indicators["income_indicators"]["latest_q_eps"] = NO_DATA

\* a ratio entry: present exactly when `inputs` holds, and then n/d times
\* scale to the nearest integer, or exactly n/d times scale
RatioEntry(map, key, inputs, t, n, d, scale, exact) ==
    /\ key \in DOMAIN map <=> inputs
    /\ key \in DOMAIN map =>
           /\ map[key].t = t
           /\ IF exact THEN map[key].v * d = scale * n
              ELSE Nearest(map[key].v, scale * n, d)

DerivedRatios(exact) ==
    /\ LET stored == "income_indicators" \in DOMAIN Indicators
           df == collected.raw_data["financial_statement"]
           First(origin_name) == RecordsAt(df, MaxDate(df), origin_name)
           Has(origin_name) == stored /\ First(origin_name) # <<>>
           Val(origin_name) == First(origin_name)[1].value.n
           revenue == Has("Revenue") /\ Val("Revenue") # 0
       IN  /\ RatioEntry(Indicators, "operating_margin_pct",
                         revenue /\ Has("OperatingIncome"), "pct1",
                         Val("OperatingIncome"), Val("Revenue"), 1000, exact)
           /\ RatioEntry(Indicators, "gross_margin_pct",
                         revenue /\ Has("GrossProfit"), "pct1",
                         Val("GrossProfit"), Val("Revenue"), 1000, exact)
    /\ "balance_indicators" \in DOMAIN Indicators =>
       LET df == collected.raw_data["balance_sheet"]
           section == Indicators["balance_indicators"]
           First(origin_name) == RecordsAt(df, MaxDate(df), origin_name)
           Has(origin_name) == First(origin_name) # <<>>
           Val(origin_name) == First(origin_name)[1].value.n
           liabilities == Has("CurrentLiabilities")
                          /\ Val("CurrentLiabilities") # 0
       IN  /\ RatioEntry(section, "debt_ratio",
                         /\ Has("Liabilities") /\ Has("TotalAssets")
                         /\ Val("TotalAssets") # 0,
                         "pct1", Val("Liabilities"), Val("TotalAssets"),
                         1000, exact)
           /\ RatioEntry(section, "current_ratio",
                         Has("CurrentAssets") /\ liabilities, "dec2",
                         Val("CurrentAssets"), Val("CurrentLiabilities"),
                         100, exact)
           /\ RatioEntry(section, "quick_ratio",
                         /\ Has("CurrentAssets") /\ Has("Inventories")
                         /\ liabilities,
                         "dec2", Val("CurrentAssets") - Val("Inventories"),
                         Val("CurrentLiabilities"), 100, exact)

\* C4 as amended: the operating and gross margins (beside a stored income
\* section) and the debt, current and quick ratios (in a stored balance
\* section) are present exactly when all their inputs have a current value
\* and the denominator is not zero, and a ratio that is present is the
\* quotient rounded: the margins and the debt ratio as a percentage to one
\* decimal place, the current and quick ratios to two decimal places.
C4_RatiosRounded == DerivedRatios(FALSE)

\* C4 as written: a ratio that is present is exactly the quotient.
C4_RatiosExact == DerivedRatios(TRUE)

\* C4: liabilities 2 over assets 3: 66.7%
C4_Witness ==
    /\ "balance_indicators" \in DOMAIN Indicators
    /\ "debt_ratio" \in DOMAIN Indicators["balance_indicators"]
    /\ Indicators["balance_indicators"]["debt_ratio"] = Entry("pct1", 667, "")

\* a fetch that failed: an error, or an answer without data
Failed(dataset) ==
    \/ upstream[dataset].kind = "error"
    \/ upstream[dataset].kind = "list" /\ upstream[dataset].data = <<>>

\* every answer that carries data carries a list of records
AnswersAreLists == \A d \in Datasets : upstream[d].kind # "scalar"

\* the datasets in the order of their fetches
AllFetches == [i \in DOMAIN Steps |-> Steps[i][1]]

\* the company list came and does not hold the requested stock
NotListed ==
    /\ ~Failed("TaiwanStockInfo")
    /\ upstream["TaiwanStockInfo"].kind = "list"
    /\ \A i \in DOMAIN upstream["TaiwanStockInfo"].data :
           upstream["TaiwanStockInfo"].data[i].stock_id # collected.stock_code

\* the sections that depend on one dataset each, by raw_data key
SectionOfDataset ==
    [basic_info |-> "basic_info_section",
     financial_statement |-> "income_indicators",
     cashflow |-> "cashflow_indicators",
     balance_sheet |-> "balance_indicators",
     margin_trading |-> "trading_indicators",
     per_pbr |-> "trading_indicators"]

\* C7: whatever fetches fail, all nine datasets are requested and the run
\* returns a success; a dataset whose fetch failed is absent from raw_data
\* and marked unavailable, a dataset that arrived is kept as it came and
\* marked available; and the section of every dataset that arrived is
\* computed (its records being numbers), the monthly section when the batch
\* holds last year's same month.
C7_PartialResult ==
    (Ran /\ AnswersAreLists) =>
        /\ collected.success
        /\ fetch_log = AllFetches
        /\ \A i \in DOMAIN Steps :
               IF Failed(Steps[i][1])
               THEN /\ Steps[i][2] \notin DOMAIN collected.raw_data
                    /\ collected.data_availability[Steps[i][3]]
                           \in {NO_DATA, StrE("api_error")}
               ELSE i > 1 =>
                    /\ Steps[i][2] \in DOMAIN collected.raw_data
                    /\ collected.raw_data[Steps[i][2]] = upstream[Steps[i][1]].data
                    /\ collected.data_availability[Steps[i][3]]
                           = Entry("available", Len(upstream[Steps[i][1]].data), "")
        /\ NumbersOnly(collected.raw_data) =>
               /\ \A key \in DOMAIN SectionOfDataset \cap DOMAIN collected.raw_data :
                      SectionOfDataset[key] \in DOMAIN Indicators
               /\ "monthly_revenue_indicators" \in DOMAIN Indicators
                      <=> /\ "monthly_revenue" \in DOMAIN collected.raw_data
                          /\ LET df == collected.raw_data["monthly_revenue"]
                             IN  \E i \in DOMAIN df :
                                     /\ df[i].date[1] = df[Len(df)].date[1] - 1
                                     /\ df[i].date[2] = df[Len(df)].date[2]

\* C7: the balance sheet and the cash flows failed, the income statement
\* arrived and its section is there
C7_Witness ==
    /\ Ran
    /\ Failed("TaiwanStockBalanceSheet")
    /\ Failed("TaiwanStockCashFlowsStatement")
    /\ ~Failed("TaiwanStockFinancialStatements")
    /\ collected.success
    /\ "income_indicators" \in DOMAIN Indicators
    /\ "balance_indicators" \notin DOMAIN Indicators

\* C8: when the company list does not hold the requested stock the run ends
\* at once with a failure and requests no further dataset; nothing else ends
\* a run of well-formed answers early.
C8_NotFoundAborts ==
    Ran =>
        /\ NotListed =>
               /\ ~collected.success
               /\ fetch_log = <<"TaiwanStockInfo">>
        /\ (AnswersAreLists /\ fetch_log # AllFetches) => NotListed

\* C9: a fault while the indicators are derived ends the run with a failure:
\* no successful result, and no 200 response, reports a calculation error.
C9_FaultIsFailure ==
    Ran =>
        /\ collected.success =>
               "calc_error" \notin DOMAIN collected.calculated_indicators
        /\ response.status = 200 => "calc_error" \notin DOMAIN Indicators

\* a result without its timestamp
Untimed(all_data) == [all_data EXCEPT !.timestamp = 0]

\* C10 as amended: two runs for the same stock over the same answers return
\* results that are identical but for their timestamp.
C10_SameButTimestamp ==
    (previous # NoResult /\ previous.stock_code = collected.stock_code)
        => Untimed(collected) = Untimed(previous)

\* C10 as written: the two runs return identical results.
C10_SameResult ==
    (previous # NoResult /\ previous.stock_code = collected.stock_code)
        => collected = previous

\* C10: two successful runs at different times
C10_Witness ==
    /\ previous # NoResult
    /\ previous.stock_code = collected.stock_code
    /\ previous.success /\ collected.success
    /\ "income_indicators" \in DOMAIN Indicators
    /\ previous.timestamp # collected.timestamp

\* the records of a batch that carry its maximum date
AtMaxDate(df) == AtDate(df, MaxDate(df))

\* C11: whatever the order of a batch, the current record of every dataset is
\* one with the maximum date of the batch: a statement section reports that
\* date and the fields present at it, the monthly section is computed from
\* the record of the maximum date and the record of the same month a year
\* before it, and the margin and valuation entries show a record of the
\* maximum date.
C11_LatestIsMaxDate ==
    /\ \A s \in StatementSections :
           s.section \in DOMAIN Indicators =>
               LET df == collected.raw_data[s.raw]
                   section == Indicators[s.section]
               IN  /\ DateE(MaxDate(df)) \in {section[k] : k \in DOMAIN section}
                   /\ \A i \in DOMAIN s.mapping :
                          section[s.mapping[i][2]] # NO_DATA
                              <=> RecordsAt(df, MaxDate(df), s.mapping[i][1]) # <<>>
    /\ "cashflow_indicators" \in DOMAIN Indicators =>
           Indicators["cashflow_indicators"]["latest_cashflow_date"]
               = DateE(MaxDate(collected.raw_data["cashflow"]))
    /\ (collected.success /\ "calc_error" \notin DOMAIN Indicators
        /\ "monthly_revenue" \in DOMAIN collected.raw_data) =>
           LET df == collected.raw_data["monthly_revenue"]
               latest == MaxDate(df)
               prior == SelectSeq(df, LAMBDA r : /\ r.date[1] = latest[1] - 1
                                                 /\ r.date[2] = latest[2])
           IN  /\ "monthly_revenue_indicators" \in DOMAIN Indicators
                      <=> prior # <<>>
               /\ prior # <<>> =>
                      LET section == Indicators["monthly_revenue_indicators"]
                      IN  /\ section.latest_month = YmE(latest)
                          /\ \E r \in {AtMaxDate(df)[i] : i \in DOMAIN AtMaxDate(df)} :
                                 section.latest_month_revenue = Yi1(r.revenue.n)
                          /\ \E r \in {prior[i] : i \in DOMAIN prior} :
                                 section.last_year_month_revenue = Yi1(r.revenue.n)
    /\ ("trading_indicators" \in DOMAIN Indicators
        /\ "margin_trading" \in DOMAIN collected.raw_data) =>
           LET latest == AtMaxDate(collected.raw_data["margin_trading"])
           IN  \E r \in {latest[i] : i \in DOMAIN latest} :
                   /\ Indicators["trading_indicators"].margin_balance
                          = Entry("lots", r.MarginPurchaseTodayBalance.n, "")
                   /\ Indicators["trading_indicators"].margin_limit
                          = Entry("lots", r.MarginPurchaseLimit.n, "")
    /\ ("trading_indicators" \in DOMAIN Indicators
        /\ "per_pbr" \in DOMAIN collected.raw_data) =>
           LET latest == AtMaxDate(collected.raw_data["per_pbr"])
           IN  \E r \in {latest[i] : i \in DOMAIN latest} :
                   Indicators["trading_indicators"].dividend_yield
                       = PerEntries(<<r>>).dividend_yield

\* the last record of a field at a date
LastOf(match) == match[Len(match)].value

\* C12: when a statement holds several records of one field at one date, the
\* value used is that of the record that comes last in the batch, as the
\* current value and as the prior-year value.
C12_LastWriteWins ==
    \A s \in StatementSections :
        s.section \in DOMAIN Indicators =>
            \A i \in DOMAIN s.mapping :
                LET df == collected.raw_data[s.raw]
                    section == Indicators[s.section]
                    display_name == s.mapping[i][2]
                    current == RecordsAt(df, MaxDate(df), s.mapping[i][1])
                    prior == RecordsAt(df, LastYearSameDate(MaxDate(df)),
                                       s.mapping[i][1])
                IN  current # <<>> =>
                        /\ section[display_name] = NumE(LastOf(current).n)
                        /\ (prior # <<>> /\ LastOf(prior).n # 0) =>
                               /\ (display_name \o "_prior") \in DOMAIN section
                               /\ section[display_name \o "_prior"]
                                      = ShowYi(LastOf(prior).n,
                                               s.section = "income_indicators")

\* raw_data without the records whose value is not a number, a dataset left
\* without records being absent
WithoutNonNumbers(raw_data) ==
    LET Kept(key) ==
            IF key \in {"financial_statement", "cashflow", "balance_sheet"}
            THEN SelectSeq(raw_data[key], LAMBDA r : r.value.ok)
            ELSE IF key = "monthly_revenue"
            THEN SelectSeq(raw_data[key], LAMBDA r : r.revenue.ok)
            ELSE IF key = "margin_trading"
            THEN SelectSeq(raw_data[key],
                           LAMBDA r : /\ r.MarginPurchaseTodayBalance.ok
                                      /\ r.MarginPurchaseLimit.ok)
            ELSE IF key = "per_pbr"
            THEN SelectSeq(raw_data[key], LAMBDA r : r.dividend_yield.ok)
            ELSE raw_data[key]
        keys == {key \in DOMAIN raw_data :
                    key = "basic_info" \/ Kept(key) # <<>>}
    IN  [key \in keys |-> Kept(key)]

\* C13: a record whose value is not a number raises no error and is dropped:
\* the indicator map of a run is the one the same batches give without such
\* records.
C13_NonNumericDropped ==
    collected.success =>
        /\ "calc_error" \notin DOMAIN Indicators
        /\ Indicators
               = CalculateBasicIndicators(WithoutNonNumbers(collected.raw_data))

\* C14: however the invocations interleave, the result of each is the result
\* of a run on its own of the same stock over the same answers, and the
\* collector is as constructed.
C14_Isolation ==
    /\ collector = Constructed
    /\ \A t \in Threads :
           invocations[t].pc = "done" =>
               invocations[t].result
                   = CollectAllData(AnswersTo(upstream, invocations[t].stock_code),
                                    invocations[t].stock_code,
                                    invocations[t].result.timestamp)

\* C14: the second invocation returned a success while the first is between
\* two of its fetches
C14_Witness ==
    /\ invocations[1].pc = "fetch"
    /\ invocations[1].i > 1
    /\ invocations[2].pc = "done"
    /\ invocations[2].result.success
    /\ invocations[2].result.stock_code # invocations[1].stock_code

\* the keys each section that can raise stores, in the order of the sections
StoredBy ==
    << {"basic_info_section"},
       {"income_indicators", "operating_margin_pct", "gross_margin_pct"},
       {"monthly_revenue_indicators"},
       {"cashflow_indicators"},
       {"balance_indicators"},
       {"trading_indicators"} >>

\* C15: the sections are computed in the order basic info, income statement,
\* monthly revenue, cash flow, balance sheet, trading, YoY summary, marker of
\* the unavailable items.  When a section raises, the map returned holds what
\* the sections before it stored, as they stored it, nothing of that section
\* or of a later one, and the error entry; when none raises it holds what
\* every section stored and the marker.  So a map holds exactly one of the
\* error entry and the marker.
C15_FaultFrame ==
    collected.success =>
        LET indicators == collected.calculated_indicators
            sections == SectionsOf(collected.raw_data)
            faulty == {i \in DOMAIN sections : sections[i].fault}
            first == CHOOSE i \in faulty : \A j \in faulty : i <= j
            before == IF faulty = {} THEN DOMAIN sections
                      ELSE {i \in DOMAIN sections : i < first}
        IN  /\ ("calc_error" \in DOMAIN indicators)
                   # ("finmind_unavailable_items" \in DOMAIN indicators)
            /\ "calc_error" \in DOMAIN indicators <=> faulty # {}
            /\ \A i \in before :
                   /\ DOMAIN sections[i].out \subseteq StoredBy[i]
                   /\ \A key \in DOMAIN sections[i].out :
                          /\ key \in DOMAIN indicators
                          /\ indicators[key] = sections[i].out[key]
            /\ \A i \in DOMAIN sections \ before :
                   StoredBy[i] \cap DOMAIN indicators = {}
            /\ faulty # {} => "yoy_summary" \notin DOMAIN indicators
            /\ DOMAIN indicators \subseteq
                   UNION {StoredBy[i] : i \in before}
                   \cup {"yoy_summary", "finmind_unavailable_items", "calc_error"}

\* C15: the balance sheet section raised after the cash flow section was
\* stored
C15_Witness ==
    /\ collected.success
    /\ "balance_sheet" \in DOMAIN collected.raw_data
    /\ "calc_error" \in DOMAIN Indicators
    /\ "cashflow_indicators" \in DOMAIN Indicators
    /\ "balance_indicators" \notin DOMAIN Indicators

\* C16: a successful result comes from the nine datasets fetched once each in
\* the order profile, income statement, monthly revenue, cash flow, balance
\* sheet, margin, daily price, day trading, valuation; data_availability has
\* an entry for each of the nine and for the two categories that are never
\* available; raw_data holds a dataset's key exactly when its entry says
\* available, for the profile exactly when the fetch returned data holding a
\* record of the requested stock; and no batch in raw_data is empty.
C16_ResultConsistent ==
    (Ran /\ collected.success) =>
        /\ fetch_log = <<"TaiwanStockInfo", "TaiwanStockFinancialStatements",
                         "TaiwanStockMonthRevenue",
                         "TaiwanStockCashFlowsStatement",
                         "TaiwanStockBalanceSheet",
                         "TaiwanStockMarginPurchaseShortSale",
                         "TaiwanStockDaily", "TaiwanStockDayTrading",
                         "TaiwanStockPER">>
        /\ DOMAIN collected.data_availability
               = {Steps[i][3] : i \in DOMAIN Steps}
                 \cup {"shareholding_data", "special_events"}
        /\ collected.data_availability["shareholding_data"].t = "str"
        /\ collected.data_availability["special_events"].t = "str"
        /\ DOMAIN collected.raw_data \subseteq {Steps[i][2] : i \in DOMAIN Steps}
        /\ "basic_info" \in DOMAIN collected.raw_data
               <=> collected.data_availability["basic_info_area"]
                       = StrE("available")
        /\ "basic_info" \in DOMAIN collected.raw_data
               <=> (~Failed("TaiwanStockInfo") /\ ~NotListed)
        /\ "basic_info" \in DOMAIN collected.raw_data
               => collected.raw_data["basic_info"].stock_id
                      = collected.stock_code
        /\ \A i \in DOMAIN Steps \ {1} :
               /\ Steps[i][2] \in DOMAIN collected.raw_data
                      <=> collected.data_availability[Steps[i][3]].t = "available"
               /\ Steps[i][2] \in DOMAIN collected.raw_data
                      => collected.raw_data[Steps[i][2]] # <<>>

\* C16: a success for a stock that the company list does not hold, one
\* dataset having failed
C16_Witness ==
    /\ Ran
    /\ collected.success
    /\ NotListed
    /\ Failed("TaiwanStockDaily")
    /\ "daily_price" \notin DOMAIN collected.raw_data
    /\ "per_pbr" \in DOMAIN collected.raw_data

\* C17: after a request to either route, a code shorter than four characters
\* was answered with 400 and success false without a single fetch; any other
\* code was collected, and the answer is 200 exactly when the collection
\* reported success true, and otherwise 500 with a body saying success false.
C17_StatusMapping ==
    request # NoRequest =>
        /\ response.route = request.route
        /\ IF Len(request.stock_code) < 4
           THEN /\ response.status = 400
                /\ response.body.success = FALSE
                /\ fetch_log = <<>>
           ELSE /\ collected.stock_code = request.stock_code
                /\ fetch_log # <<>>
                /\ response.status \in {200, 500}
                /\ response.status = 200 <=> collected.success
                /\ response.status = 500
                       => /\ "success" \in DOMAIN response.body
                          /\ response.body.success = FALSE

====
